---------------------------- MODULE Spec2Model ----------------------------
(***************************************************************************)
(* Model of frontend/backend/main.py: the /signup-student request handler  *)
(* (signup_student), its helper call_groq_ai, the process-wide collaborator *)
(* handles set up at import time, and the temporary-file namespace shared   *)
(* by all requests.                                                         *)
(*                                                                         *)
(* Python and JSON values are tagged records [k |-> kind, v |-> payload];   *)
(* an exception travelling up the stack is the value Raise(name).           *)
(***************************************************************************)
EXTENDS Integers, Sequences, FiniteSets, TLC

VARIABLES
    doc_client,   \* module global: the Azure client, or None
    GROQ_KEY,     \* module global: os.getenv("GROQ_API_KEY")
    workers,      \* number of server processes sharing the working directory
    fs,           \* directory entries: path -> inode (0: no such file)
    disk,         \* inode -> bytes written to it
    pc,           \* per request: the handler's position
    request,      \* per request: the form fields and the upload
    buffer,       \* per request: inode of the file object opened "wb" (0: closed)
    saved,        \* per request: inode the upload was saved to (0: none yet)
    resume_text,  \* per request: local of signup_student
    prompt,       \* per request: local of signup_student
    api_result,   \* per request: local of signup_student
    ai_analysis,  \* per request: local of signup_student
    response,     \* per request: what the handler returned
    calls,        \* per request: invocations of each collaborator so far
    caught,       \* per request: the exception the except clause logged
    escaped,      \* per request: the exception that left the handler
    upstream,     \* per request: what requests.post did, once called
    trace         \* per request: the stages executed, in order

vars == <<doc_client, GROQ_KEY, workers, fs, disk, pc, request, buffer, saved,
          resume_text, prompt, api_result, ai_analysis, response, calls,
          caught, escaped, upstream, trace>>

(***************************************************************************)
(* Bounds of the model.                                                     *)
(***************************************************************************)
NumRequests == 2

Requests == 1..NumRequests

(***************************************************************************)
(* Python / JSON values.                                                    *)
(***************************************************************************)
None == [k |-> "null", v |-> 0]
Unbound == [k |-> "unbound", v |-> 0]
JInt(n) == [k |-> "int", v |-> n]
JStr(s) == [k |-> "str", v |-> s]
JList(s) == [k |-> "list", v |-> s]
JObj(f) == [k |-> "obj", v |-> f]
Raise(e) == [k |-> "exc", v |-> e]
IsExc(x) == x.k = "exc"

\* Python truth value of x, as `if x:` tests it.
Truthy(x) ==
    CASE x.k = "null" -> FALSE
      [] x.k = "int" -> x.v # 0
      [] x.k = "str" -> x.v # ""
      [] x.k = "text" -> Len(x.v) > 0
      [] x.k = "list" -> Len(x.v) > 0
      [] x.k = "obj" -> DOMAIN x.v # {}
      [] OTHER -> TRUE

\* x[key] for a string key, as api_result["choices"] evaluates it.
GetItem(x, key) ==
    CASE IsExc(x) -> x
      [] x.k = "obj" -> IF key \in DOMAIN x.v THEN x.v[key] ELSE Raise("KeyError")
      [] OTHER -> Raise("TypeError")

\* x[i] for an integer index counted from 0, as ...["choices"][0] evaluates it.
GetIndex(x, i) ==
    CASE IsExc(x) -> x
      [] x.k = "list" -> IF i + 1 \in DOMAIN x.v THEN x.v[i + 1] ELSE Raise("IndexError")
      [] x.k = "obj" -> Raise("KeyError")
      [] x.k = "str" -> Raise("IndexError")
      [] OTHER -> Raise("TypeError")

(***************************************************************************)
(* Text that the handler slices is a sequence of characters, kind "text".   *)
(***************************************************************************)
Text(s) == [k |-> "text", v |-> s]

ResumeLimit == 2000

\* x[:n]
Slice(x, n) ==
    IF x.k = "text"
    THEN Text(SubSeq(x.v, 1, IF Len(x.v) < n THEN Len(x.v) ELSE n))
    ELSE Raise("TypeError")

\* "Resume text missing (Azure skipped)."
SKIPPED_TEXT ==
    Text(<<"R","e","s","u","m","e"," ","t","e","x","t"," ","m","i","s","s","i","n","g",
           " ","(","A","z","u","r","e"," ","s","k","i","p","p","e","d",")",".">>)

\* The literal assigned to ai_analysis before the try block.
FALLBACK ==
    JObj([match_score |-> JInt(85),
          skills_to_learn |-> JList(<<JStr("Python"), JStr("React"), JStr("Cloud Basics")>>),
          learning_path |-> JList(<<
              JObj([phase |-> JStr("Week 1"), title |-> JStr("Foundation"),
                    tasks |-> JList(<<JStr("Learn Syntax"), JStr("Build Calculator")>>)]),
              JObj([phase |-> JStr("Week 2"), title |-> JStr("Advanced"),
                    tasks |-> JList(<<JStr("API Integration"), JStr("DB Design")>>)])>>),
          suggested_projects |-> JList(<<
              JObj([title |-> JStr("Portfolio Site"), desc |-> JStr("Build a personal site"),
                    difficulty |-> JStr("Beginner")])>>),
          advice |-> JStr("Focus on building practical projects.")])

(***************************************************************************)
(* json.loads on the message contents the chat-completion service is taken  *)
(* to send back.                                                            *)
(***************************************************************************)
GoodText ==
    "{\"match_score\": 72, \"skills_to_learn\": [\"Go\"], \"learning_path\": [{\"phase\": \"Week 1-4\", \"title\": \"Foundation\", \"tasks\": [\"Task 1\"]}], \"suggested_projects\": [{\"title\": \"Project A\", \"desc\": \"Description\", \"difficulty\": \"Beginner\"}], \"advice\": \"Ship it.\"}"
OutOfRangeText == "{\"match_score\": 150}"
ListText == "[]"
TruncatedText == "{\"match_score\": "

GoodValue ==
    JObj([match_score |-> JInt(72),
          skills_to_learn |-> JList(<<JStr("Go")>>),
          learning_path |-> JList(<<
              JObj([phase |-> JStr("Week 1-4"), title |-> JStr("Foundation"),
                    tasks |-> JList(<<JStr("Task 1")>>)])>>),
          suggested_projects |-> JList(<<
              JObj([title |-> JStr("Project A"), desc |-> JStr("Description"),
                    difficulty |-> JStr("Beginner")])>>),
          advice |-> JStr("Ship it.")])

json_loads(x) ==
    IF x.k # "str" THEN Raise("TypeError")
    ELSE CASE x.v = GoodText -> GoodValue
           [] x.v = OutOfRangeText -> JObj([match_score |-> JInt(150)])
           [] x.v = ListText -> JList(<<>>)
           [] OTHER -> Raise("JSONDecodeError")

(***************************************************************************)
(* Process start-up (import time): the environment and the two handles.     *)
(***************************************************************************)
EnvEndpoints == {None, JStr("https://doc.example")}
EnvDocKeys == {None, JStr("<YOUR-KEY>"), JStr("doc-secret")}
EnvGroqKeys == {None, JStr(""), JStr("gsk_secret")}

\* "YOUR-KEY" in key, for the keys of EnvDocKeys.
IsPlaceholder(key) == key.v = "<YOUR-KEY>"

DocClient == JStr("DocumentIntelligenceClient")

\* doc_client after the module-level try/except: the constructor raising leaves None.
SetupDocClient(endpoint, key, constructed) ==
    IF Truthy(endpoint) /\ Truthy(key) /\ ~IsPlaceholder(key) /\ constructed
    THEN DocClient
    ELSE None

\* Variant: the guards are missing, every stage runs.
ConfiguredAlways(handle) == TRUE

\* `if doc_client:` and `if GROQ_KEY:`
Configured(handle) == Truthy(handle)

(***************************************************************************)
(* A path is the sequence of its components; an uploaded filename may hold  *)
(* separators, and the handler prefixes it unsanitised.                     *)
(***************************************************************************)
Filenames == {<<"cv.pdf">>, <<"notes.txt">>, <<"x", "cv.pdf">>}

\* f"temp_{resume.filename}"
temp_filename(filename) == <<"temp_" \o Head(filename)>> \o Tail(filename)

Paths == {temp_filename(f) : f \in Filenames}

\* The directories that exist: the working directory alone.
Directories == {<<>>}

ParentExists(path) == SubSeq(path, 1, Len(path) - 1) \in Directories

\* os.path.exists(path)
Exists(dir, path) == dir[path] # 0

\* os.remove(path) on an existing entry
Unlink(dir, path) == [dir EXCEPT ![path] = 0]

(***************************************************************************)
(* The request: form fields with their defaults, and the upload.            *)
(***************************************************************************)
Uploads ==
    {[full_name |-> "Student", email |-> "test@test.com", selected_domains |-> "[]",
      degree |-> "", resume |-> <<37, 80, 68, 70>>],
     [full_name |-> "Ada", email |-> "ada@example.org", selected_domains |-> "[\"AI\"]",
      degree |-> "BSc", resume |-> <<0, 255>>]}

NoRequest == [filename |-> <<>>, form |-> Unbound]

(***************************************************************************)
(* The document-extraction collaborator: what poller.result().content is,   *)
(* or the exception begin_analyze_document / result() raises.               *)
(***************************************************************************)
LongText == Text([i \in 1..(ResumeLimit + 1) |-> "a"])

DocOutcomes ==
    {Raise("HttpResponseError"), None, Text(<<"C", "V">>), LongText}

(***************************************************************************)
(* The chat-completion collaborator: requests.post raising, or the HTTP     *)
(* response with its status and what response.json() gives.                 *)
(***************************************************************************)
Envelope(content) ==
    JObj([choices |-> JList(<<JObj([message |-> JObj([content |-> content])])>>)])

JsonBodies ==
    {Raise("JSONDecodeError"),
     JObj(<<>>),
     JObj([error |-> JStr("rate limited")]),
     JObj([choices |-> JList(<<>>)]),
     Envelope(None),
     Envelope(JStr(GoodText)),
     Envelope(JStr(OutOfRangeText)),
     Envelope(JStr(ListText)),
     Envelope(JStr(TruncatedText))}

HttpOutcomes ==
    {Raise("ConnectionError")}
    \cup {[k |-> "http", v |-> [status_code |-> 200, json |-> b]] : b \in JsonBodies}
    \cup {[k |-> "http",
           v |-> [status_code |-> s, json |-> JObj([error |-> JStr("upstream")])]] :
            s \in {401, 500}}

\* Variant: the status is not looked at, the parsed body is always returned.
call_groq_ai_AnyStatus(api_key, text_prompt, http) ==
    IF IsExc(http) THEN http ELSE http.v.json

\* call_groq_ai, given what requests.post did: the parsed body on 200, None otherwise.
call_groq_ai(api_key, text_prompt, http) ==
    IF IsExc(http) THEN http
    ELSE IF http.v.status_code = 200 THEN http.v.json
    ELSE None

\* The prompt: the f-string's three interpolations.
BuildPrompt(full_name, selected_domains, text) ==
    IF IsExc(Slice(text, ResumeLimit)) THEN Slice(text, ResumeLimit)
    ELSE [k |-> "prompt",
          v |-> [full_name |-> full_name, interests |-> selected_domains,
                 resume |-> Slice(text, ResumeLimit).v]]

\* Variant: the parsed value is dropped, ai_analysis is never reassigned.
ParseResultDropped(analysis, result) ==
    IF Truthy(result)
    THEN LET raw_text ==
                 GetItem(GetItem(GetIndex(GetItem(result, "choices"), 0), "message"),
                         "content")
         IN  IF IsExc(raw_text) THEN raw_text
             ELSE IF IsExc(json_loads(raw_text)) THEN json_loads(raw_text)
             ELSE analysis
    ELSE analysis

\* Lines 129-131: the value of ai_analysis after the parse stage, or the exception.
ParseResult(analysis, result) ==
    IF Truthy(result)
    THEN LET raw_text ==
                 GetItem(GetItem(GetIndex(GetItem(result, "choices"), 0), "message"),
                         "content")
         IN  IF IsExc(raw_text) THEN raw_text ELSE json_loads(raw_text)
    ELSE analysis

(***************************************************************************)
(* Control flow of signup_student.                                          *)
(***************************************************************************)
Stages == <<"save", "extract", "prompt", "call", "parse", "cleanup", "respond">>

\* Variant: the removal sits at the end of the try block, not in a finally.
HandlerNoFinally(stage) == "respond"

\* Variant: extraction has a try/except of its own and the pipeline goes on.
HandlerResume(stage) == IF stage = "extract" THEN "prompt" ELSE "cleanup"

\* Where an exception raised inside the try block leads: the except clause
\* logs it and the finally clause runs.
Handler(stage) == "cleanup"

\* Variant: the except clause reports the error in ai_analysis.
AfterExceptReported(analysis, exc) == JObj([error |-> JStr(exc)])

\* The value ai_analysis holds once the except clause has run.
AfterExcept(analysis, exc) == analysis

\* Variant: a "no result" answer is tried once more.
AfterCallRetry(result, attempts) ==
    IF result = None /\ attempts < 2 THEN "call" ELSE "parse"

\* Where the handler goes after call_groq_ai returned.
AfterCall(result, attempts) == "parse"

\* The returned dict.
Envelope200(analysis) ==
    [status |-> "success", message |-> "Signup Successful", ai_analysis |-> analysis]

NoCalls == [doc |-> 0, groq |-> 0]

NoCatch == [stage |-> "none", exc |-> "none"]

Terminal == {"done", "raised"}

\* A single server process runs one handler at a time: signup_student is a
\* coroutine that never awaits.  Several processes interleave freely.
CanRun(r) ==
    workers > 1 \/ \A q \in Requests \ {r} : pc[q] \in Terminal \cup {"idle"}

\* The handler of r is left by exception exc: its parameters and locals are gone.
Escape(r, exc) ==
    /\ pc' = [pc EXCEPT ![r] = "raised"]
    /\ request' = [request EXCEPT ![r] = NoRequest]
    /\ escaped' = [escaped EXCEPT ![r] = exc]
    /\ buffer' = [buffer EXCEPT ![r] = 0]
    /\ resume_text' = [resume_text EXCEPT ![r] = Unbound]
    /\ prompt' = [prompt EXCEPT ![r] = Unbound]
    /\ api_result' = [api_result EXCEPT ![r] = Unbound]
    /\ ai_analysis' = [ai_analysis EXCEPT ![r] = Unbound]

\* An exception exc raised in `stage` inside the try block.
Catch(r, stage, exc) ==
    /\ pc' = [pc EXCEPT ![r] = Handler(stage)]
    /\ caught' = [caught EXCEPT ![r] = [stage |-> stage, exc |-> exc]]
    /\ ai_analysis' = [ai_analysis EXCEPT ![r] = AfterExcept(ai_analysis[r], exc)]

Startup ==
    /\ \E endpoint \in EnvEndpoints, key \in EnvDocKeys, constructed \in BOOLEAN :
           doc_client = SetupDocClient(endpoint, key, constructed)
    /\ GROQ_KEY \in EnvGroqKeys
    /\ fs = [p \in Paths |-> 0]
    /\ disk = [i \in Requests |-> <<>>]
    /\ pc = [r \in Requests |-> "idle"]
    /\ request = [r \in Requests |-> NoRequest]
    /\ buffer = [r \in Requests |-> 0]
    /\ saved = [r \in Requests |-> 0]
    /\ resume_text = [r \in Requests |-> Unbound]
    /\ prompt = [r \in Requests |-> Unbound]
    /\ api_result = [r \in Requests |-> Unbound]
    /\ ai_analysis = [r \in Requests |-> Unbound]
    /\ response = [r \in Requests |-> Unbound]
    /\ calls = [r \in Requests |-> NoCalls]
    /\ caught = [r \in Requests |-> NoCatch]
    /\ escaped = [r \in Requests |-> "none"]
    /\ upstream = [r \in Requests |-> Unbound]
    /\ trace = [r \in Requests |-> <<>>]

\* uvicorn.run(app, ...): one server process.
Init == Startup /\ workers = 1

\* The app served by two processes in the same working directory.
InitConc == Startup /\ workers = 2

\* The framework calls signup_student with the parsed form (lines 65-75).
\* Requests are numbered in order of arrival.
Arrive(r) ==
    /\ pc[r] = "idle"
    /\ CanRun(r)
    /\ \A q \in Requests : q < r => pc[q] # "idle"
    /\ \E filename \in Filenames, form \in Uploads :
           request' = [request EXCEPT ![r] = [filename |-> filename, form |-> form]]
    /\ pc' = [pc EXCEPT ![r] = "save"]
    /\ UNCHANGED <<doc_client, GROQ_KEY, workers, fs, disk, buffer, saved,
                   resume_text, prompt, api_result, ai_analysis, response, calls,
                   caught, escaped, upstream, trace>>

\* open(temp_filename, "wb"): creates the entry, or truncates the file it names.
OpenTemp(r) ==
    /\ pc[r] = "save"
    /\ CanRun(r)
    /\ trace' = [trace EXCEPT ![r] = Append(@, "save")]
    /\ LET path == temp_filename(request[r].filename) IN
       IF ~ParentExists(path)
       THEN /\ Escape(r, "FileNotFoundError")
            /\ UNCHANGED <<fs, disk, saved>>
       ELSE /\ fs' = IF Exists(fs, path) THEN fs ELSE [fs EXCEPT ![path] = r]
            /\ saved' = [saved EXCEPT ![r] = IF Exists(fs, path) THEN fs[path] ELSE r]
            /\ disk' = [disk EXCEPT ![IF Exists(fs, path) THEN fs[path] ELSE r] = <<>>]
            /\ buffer' = [buffer EXCEPT ![r] = IF Exists(fs, path) THEN fs[path] ELSE r]
            /\ pc' = [pc EXCEPT ![r] = "copy"]
            /\ UNCHANGED <<request, resume_text, prompt, api_result, ai_analysis, escaped>>
    /\ UNCHANGED <<doc_client, GROQ_KEY, workers, response, calls, caught, upstream>>

\* The bytes written through r's file object: nothing of them stays once the
\* inode has been unlinked.
Written(r, bytes) ==
    IF \E p \in Paths : fs[p] = buffer[r]
    THEN [disk EXCEPT ![buffer[r]] = bytes]
    ELSE disk

\* shutil.copyfileobj(resume.file, buffer), the file closed on leaving `with`;
\* then lines 79-93 assign resume_text and ai_analysis.
CopyUpload(r) ==
    /\ pc[r] = "copy"
    /\ CanRun(r)
    /\ \E written \in BOOLEAN :
           IF written
           THEN /\ disk' = Written(r, request[r].form.resume)
                /\ buffer' = [buffer EXCEPT ![r] = 0]
                /\ resume_text' = [resume_text EXCEPT ![r] = SKIPPED_TEXT]
                /\ ai_analysis' = [ai_analysis EXCEPT ![r] = FALLBACK]
                /\ pc' = [pc EXCEPT ![r] = "extract"]
                /\ UNCHANGED <<request, prompt, api_result, escaped>>
           ELSE /\ disk' = Written(r, SubSeq(request[r].form.resume, 1, 1))
                /\ Escape(r, "OSError")
    /\ UNCHANGED <<doc_client, GROQ_KEY, workers, fs, saved, response, calls, caught,
                   upstream, trace>>

\* Lines 96-101: with a client, re-open the temporary file and have it read.
Extract(r) ==
    /\ pc[r] = "extract"
    /\ CanRun(r)
    /\ IF ~Configured(doc_client)
       THEN /\ pc' = [pc EXCEPT ![r] = "prompt"]
            /\ UNCHANGED <<resume_text, ai_analysis, calls, caught, trace>>
       ELSE /\ trace' = [trace EXCEPT ![r] = Append(@, "extract")]
            /\ IF ~Exists(fs, temp_filename(request[r].filename))
               THEN /\ Catch(r, "extract", "FileNotFoundError")
                    /\ UNCHANGED <<resume_text, calls>>
               ELSE /\ calls' = [calls EXCEPT ![r].doc = @ + 1]
                    /\ \E content \in DocOutcomes :
                           IF IsExc(content)
                           THEN /\ Catch(r, "extract", content.v)
                                /\ UNCHANGED resume_text
                           ELSE /\ resume_text' = [resume_text EXCEPT ![r] = content]
                                /\ pc' = [pc EXCEPT ![r] = "prompt"]
                                /\ UNCHANGED <<ai_analysis, caught>>
    /\ UNCHANGED <<doc_client, GROQ_KEY, workers, fs, disk, request, buffer, saved,
                   prompt, api_result, response, escaped, upstream>>

\* Lines 104-124: with a key, build the prompt.
MakePrompt(r) ==
    /\ pc[r] = "prompt"
    /\ CanRun(r)
    /\ IF ~Configured(GROQ_KEY)
       THEN /\ pc' = [pc EXCEPT ![r] = "cleanup"]
            /\ UNCHANGED <<prompt, ai_analysis, caught, trace>>
       ELSE /\ trace' = [trace EXCEPT ![r] = Append(@, "prompt")]
            /\ LET text == BuildPrompt(request[r].form.full_name,
                                       request[r].form.selected_domains, resume_text[r])
               IN  IF IsExc(text)
                   THEN /\ Catch(r, "prompt", text.v)
                        /\ UNCHANGED prompt
                   ELSE /\ prompt' = [prompt EXCEPT ![r] = text]
                        /\ pc' = [pc EXCEPT ![r] = "call"]
                        /\ UNCHANGED <<ai_analysis, caught>>
    /\ UNCHANGED <<doc_client, GROQ_KEY, workers, fs, disk, request, buffer, saved,
                   resume_text, api_result, response, calls, escaped, upstream>>

\* Line 127: api_result = call_groq_ai(GROQ_KEY, prompt)
CallGroq(r) ==
    /\ pc[r] = "call"
    /\ CanRun(r)
    /\ trace' = [trace EXCEPT ![r] = Append(@, "call")]
    /\ calls' = [calls EXCEPT ![r].groq = @ + 1]
    /\ \E http \in HttpOutcomes :
           /\ upstream' = [upstream EXCEPT ![r] = http]
           /\ LET result == call_groq_ai(GROQ_KEY, prompt[r], http)
              IN  IF IsExc(result)
                  THEN /\ Catch(r, "call", result.v)
                       /\ UNCHANGED api_result
                  ELSE /\ api_result' = [api_result EXCEPT ![r] = result]
                       /\ pc' = [pc EXCEPT ![r] = AfterCall(result, calls[r].groq + 1)]
                       /\ UNCHANGED <<ai_analysis, caught>>
    /\ UNCHANGED <<doc_client, GROQ_KEY, workers, fs, disk, request, buffer, saved,
                   resume_text, prompt, response, escaped>>

\* Lines 129-132: a truthy result is unpacked and parsed into ai_analysis.
Parse(r) ==
    /\ pc[r] = "parse"
    /\ CanRun(r)
    /\ trace' = [trace EXCEPT ![r] = IF Truthy(api_result[r]) THEN Append(@, "parse") ELSE @]
    /\ LET parsed == ParseResult(ai_analysis[r], api_result[r])
       IN  IF IsExc(parsed)
           THEN Catch(r, "parse", parsed.v)
           ELSE /\ ai_analysis' = [ai_analysis EXCEPT ![r] = parsed]
                /\ pc' = [pc EXCEPT ![r] = "cleanup"]
                /\ UNCHANGED caught
    /\ UNCHANGED <<doc_client, GROQ_KEY, workers, fs, disk, request, buffer, saved,
                   resume_text, prompt, api_result, response, calls, escaped, upstream>>

\* finally: if os.path.exists(temp_filename)
CleanupExists(r) ==
    /\ pc[r] = "cleanup"
    /\ CanRun(r)
    /\ trace' = [trace EXCEPT ![r] = Append(@, "cleanup")]
    /\ pc' = [pc EXCEPT ![r] =
                 IF Exists(fs, temp_filename(request[r].filename))
                 THEN "remove" ELSE "respond"]
    /\ UNCHANGED <<doc_client, GROQ_KEY, workers, fs, disk, request, buffer, saved,
                   resume_text, prompt, api_result, ai_analysis, response, calls,
                   caught, escaped, upstream>>

\* finally: os.remove(temp_filename)
CleanupRemove(r) ==
    /\ pc[r] = "remove"
    /\ CanRun(r)
    /\ LET path == temp_filename(request[r].filename) IN
       IF Exists(fs, path)
       THEN /\ fs' = Unlink(fs, path)
            /\ disk' = [disk EXCEPT ![fs[path]] = <<>>]
            /\ pc' = [pc EXCEPT ![r] = "respond"]
            /\ UNCHANGED <<request, buffer, resume_text, prompt, api_result, ai_analysis,
                           escaped>>
       ELSE /\ Escape(r, "FileNotFoundError")
            /\ UNCHANGED <<fs, disk>>
    /\ UNCHANGED <<doc_client, GROQ_KEY, workers, saved, response, calls, caught,
                   upstream, trace>>

\* Lines 141-145: return the envelope; the parameters and locals end with the call.
Respond(r) ==
    /\ pc[r] = "respond"
    /\ CanRun(r)
    /\ trace' = [trace EXCEPT ![r] = Append(@, "respond")]
    /\ response' = [response EXCEPT ![r] = Envelope200(ai_analysis[r])]
    /\ pc' = [pc EXCEPT ![r] = "done"]
    /\ request' = [request EXCEPT ![r] = NoRequest]
    /\ resume_text' = [resume_text EXCEPT ![r] = Unbound]
    /\ prompt' = [prompt EXCEPT ![r] = Unbound]
    /\ api_result' = [api_result EXCEPT ![r] = Unbound]
    /\ ai_analysis' = [ai_analysis EXCEPT ![r] = Unbound]
    /\ UNCHANGED <<doc_client, GROQ_KEY, workers, fs, disk, buffer, saved, calls,
                   caught, escaped, upstream>>

Next ==
    \E r \in Requests :
        \/ Arrive(r)
        \/ OpenTemp(r)
        \/ CopyUpload(r)
        \/ Extract(r)
        \/ MakePrompt(r)
        \/ CallGroq(r)
        \/ Parse(r)
        \/ CleanupExists(r)
        \/ CleanupRemove(r)
        \/ Respond(r)

Spec == Init /\ [][Next]_vars

SpecConc == InitConc /\ [][Next]_vars

(***************************************************************************)
(* The AnalysisResult shape of the specification: match_score an integer in *)
(* 0..100, skills_to_learn a list of strings, learning_path a list of       *)
(* phases, suggested_projects a list of projects, advice a string.          *)
(***************************************************************************)
IsStr(x) == x.k = "str"

IsStrList(x) == x.k = "list" /\ \A i \in DOMAIN x.v : IsStr(x.v[i])

IsPhase(x) ==
    /\ x.k = "obj"
    /\ {"phase", "title", "tasks"} \subseteq DOMAIN x.v
    /\ IsStr(x.v["phase"]) /\ IsStr(x.v["title"])
    /\ IsStrList(x.v["tasks"])

IsProject(x) ==
    /\ x.k = "obj"
    /\ {"title", "desc", "difficulty"} \subseteq DOMAIN x.v
    /\ IsStr(x.v["title"]) /\ IsStr(x.v["desc"]) /\ IsStr(x.v["difficulty"])

ValidAnalysis(x) ==
    /\ x.k = "obj"
    /\ {"match_score", "skills_to_learn", "learning_path", "suggested_projects",
        "advice"} \subseteq DOMAIN x.v
    /\ x.v["match_score"].k = "int"
    /\ x.v["match_score"].v \in 0..100
    /\ IsStrList(x.v["skills_to_learn"])
    /\ x.v["learning_path"].k = "list"
    /\ \A i \in DOMAIN x.v["learning_path"].v : IsPhase(x.v["learning_path"].v[i])
    /\ x.v["suggested_projects"].k = "list"
    /\ \A i \in DOMAIN x.v["suggested_projects"].v :
           IsProject(x.v["suggested_projects"].v[i])
    /\ IsStr(x.v["advice"])

\* The position of a stage in the pipeline.
Rank(stage) == CHOOSE i \in DOMAIN Stages : Stages[i] = stage

\* The handler of r is inside or past the try block with its locals alive.
InPipeline(r) ==
    pc[r] \in {"extract", "prompt", "call", "parse", "cleanup", "remove", "respond"}

\* The status the chat-completion service answered r with (0: no answer).
StatusOf(r) == IF upstream[r].k = "http" THEN upstream[r].v.status_code ELSE 0

\* choices[0].message.content of the body the service answered r with.
ContentOf(r) ==
    IF upstream[r].k = "http"
    THEN GetItem(GetItem(GetIndex(GetItem(upstream[r].v.json, "choices"), 0), "message"),
                 "content")
    ELSE Raise("NoAnswer")

(***************************************************************************)
(* C1: whatever happens in any stage, saving the upload included, no        *)
(* exception leaves the handler and every finished request has the success  *)
(* envelope as its response.                                                *)
(***************************************************************************)
C1_NoFailureEscapes ==
    \A r \in Requests :
        /\ pc[r] # "raised"
        /\ escaped[r] = "none"
        /\ pc[r] = "done" =>
               /\ response[r].status = "success"
               /\ response[r].message = "Signup Successful"

(***************************************************************************)
(* C2: when a request's response is produced, the temporary file the        *)
(* request saved its upload to is no longer in the directory, whether the   *)
(* pipeline ran through or an exception was caught on the way.              *)
(***************************************************************************)
C2_TempFileRemoved ==
    \A r \in Requests :
        /\ pc[r] = "respond" => ~Exists(fs, temp_filename(request[r].filename))
        /\ pc[r] = "done" => \A p \in Paths : fs[p] # saved[r]

C2_Witness ==
    \E r, q \in Requests :
        /\ pc[r] = "done" /\ saved[r] # 0 /\ caught[r].stage = "call"
        /\ pc[q] = "done" /\ saved[q] # 0 /\ caught[q] = NoCatch
        /\ "parse" \in {trace[q][i] : i \in DOMAIN trace[q]}

(***************************************************************************)
(* C3: requests served side by side whose uploads carry the same filename:  *)
(* no handler that saved its upload raises, in whatever order the steps of  *)
(* the two interleave, and once a request has answered, the file it saved   *)
(* to is gone.                                                              *)
(***************************************************************************)
C3_CollisionNeverRaises ==
    \A r \in Requests :
        /\ saved[r] # 0 /\ trace[r] # <<"save">> => pc[r] # "raised"
        /\ pc[r] = "done" => \A p \in Paths : fs[p] # saved[r]

(***************************************************************************)
(* C4: with neither collaborator configured, ai_analysis is the fallback    *)
(* literal throughout and in the response, for every form and upload, and   *)
(* the response is the success envelope.                                    *)
(***************************************************************************)
C4_FallbackWhenUnconfigured ==
    doc_client = None /\ GROQ_KEY = None =>
        \A r \in Requests :
            /\ InPipeline(r) => ai_analysis[r] = FALLBACK
            /\ pc[r] = "done" =>
                   /\ response[r].status = "success"
                   /\ response[r].ai_analysis = FALLBACK
                   /\ response[r].ai_analysis.v["match_score"] = JInt(85)
                   /\ Len(response[r].ai_analysis.v["skills_to_learn"].v) = 3
                   /\ Len(response[r].ai_analysis.v["learning_path"].v) = 2
                   /\ Len(response[r].ai_analysis.v["suggested_projects"].v) = 1

C4_Witness ==
    /\ doc_client = None /\ GROQ_KEY = None
    /\ \E r, q \in Requests :
           /\ pc[q] = "done" /\ response[q].ai_analysis = FALLBACK
           /\ pc[r] = "respond" /\ request[r].form.full_name = "Ada"
           /\ ai_analysis[r] = FALLBACK

(***************************************************************************)
(* C5: when the chat-completion service answers with a status other than    *)
(* 200, call_groq_ai returns None, ai_analysis stays the fallback literal,   *)
(* the response is the success envelope and nothing escapes the handler.    *)
(***************************************************************************)
C5_Non200FallsBack ==
    \A r \in Requests :
        StatusOf(r) \notin {0, 200} =>
            /\ pc[r] # "raised" /\ escaped[r] = "none" /\ caught[r] = NoCatch
            /\ pc[r] # "call"
            /\ pc[r] = "parse" => api_result[r] = None
            /\ InPipeline(r) => ai_analysis[r] = FALLBACK
            /\ pc[r] = "done" => response[r] = Envelope200(FALLBACK)

C5_Witness ==
    \E r \in Requests :
        StatusOf(r) = 500 /\ pc[r] = "done" /\ response[r] = Envelope200(FALLBACK)

(***************************************************************************)
(* C6: when the service answers 200 and choices[0].message.content is JSON  *)
(* text of the AnalysisResult shape, the response carries the parsed object *)
(* in place of the fallback literal.                                        *)
(***************************************************************************)
C6_ParsedReplacesFallback ==
    \A r \in Requests :
        (/\ pc[r] = "done"
         /\ StatusOf(r) = 200
         /\ ContentOf(r).k = "str"
         /\ ValidAnalysis(json_loads(ContentOf(r)))) =>
            /\ response[r].ai_analysis = json_loads(ContentOf(r))
            /\ response[r].ai_analysis # FALLBACK
            /\ response[r].status = "success"

C6_Witness ==
    \E r \in Requests :
        /\ pc[r] = "done"
        /\ StatusOf(r) = 200
        /\ ContentOf(r) = JStr(GoodText)
        /\ calls[r].doc = 1
        /\ response[r].ai_analysis = GoodValue

(***************************************************************************)
(* C7: the ai_analysis of every response has the AnalysisResult shape.      *)
(***************************************************************************)
C7_ResponseValidates ==
    \A r \in Requests : pc[r] = "done" => ValidAnalysis(response[r].ai_analysis)

(***************************************************************************)
(* C8: an exception raised in the extract, prompt, call or parse stage is   *)
(* caught by the one handler; from then on ai_analysis is the value it held *)
(* before, the fallback literal, and that is what the response carries.     *)
(***************************************************************************)
C8_CaughtKeepsFallback ==
    \A r \in Requests :
        caught[r] # NoCatch =>
            /\ pc[r] \in {"cleanup", "remove", "respond", "done"}
            /\ escaped[r] = "none"
            /\ InPipeline(r) => ai_analysis[r] = FALLBACK
            /\ pc[r] = "done" => response[r] = Envelope200(FALLBACK)

C8_Witness ==
    \E r, q \in Requests :
        /\ pc[r] = "done" /\ caught[r] = [stage |-> "parse", exc |-> "JSONDecodeError"]
        /\ pc[q] = "done" /\ caught[q] = [stage |-> "parse", exc |-> "KeyError"]
        /\ response[r] = Envelope200(FALLBACK)

(***************************************************************************)
(* C9: within one request each collaborator is invoked at most once,        *)
(* whatever it answers.                                                     *)
(***************************************************************************)
C9_NoRetry ==
    \A r \in Requests : calls[r].doc <= 1 /\ calls[r].groq <= 1

C9_Witness ==
    \E r \in Requests :
        pc[r] = "done" /\ calls[r].doc = 1 /\ calls[r].groq = 1 /\ StatusOf(r) = 500

(***************************************************************************)
(* C10: the stages run in the order save, extract, prompt, call, parse,     *)
(* cleanup, respond, none twice; and once extraction has raised, no prompt  *)
(* is built and the chat-completion service is not called, the request goes *)
(* to cleanup and answers with the fallback literal.                        *)
(***************************************************************************)
C10_StageOrder ==
    \A r \in Requests :
        /\ \A i, j \in DOMAIN trace[r] :
               i < j => Rank(trace[r][i]) < Rank(trace[r][j])
        /\ caught[r].stage = "extract" =>
               /\ calls[r].groq = 0
               /\ \A i \in DOMAIN trace[r] : trace[r][i] \notin {"prompt", "call", "parse"}
               /\ pc[r] \in {"cleanup", "remove", "respond", "done"}
               /\ pc[r] = "done" => response[r] = Envelope200(FALLBACK)

C10_Witness ==
    \E r \in Requests :
        /\ GROQ_KEY = JStr("gsk_secret")
        /\ pc[r] = "done"
        /\ caught[r].stage = "extract"
        /\ trace[r] = <<"save", "extract", "cleanup", "respond">>

=============================================================================
